---- MODULE Spec2Model ----
(***************************************************************************)
(* dropheicBackend: the HEIC -> JPEG conversion server.                    *)
(*                                                                         *)
(* The model follows the production server (startServer,                   *)
(* initializeDirectories, the multer intake, the POST /convert handler,    *)
(* convertHeicToJpg and the hourly cleanupOldFiles sweep).  Every `await`  *)
(* of the source is a step boundary: between two steps of one handler the  *)
(* steps of other requests, of the sweep and of the clock may interleave,  *)
(* as they do on the Node.js event loop.                                   *)
(*                                                                         *)
(* A file name is a sequence of one-character strings.  A staged file name *)
(* `${Date.now()}-${sanitizedName}` is kept as the pair [ts, name]: the    *)
(* decimal timestamp is followed by the first "-" of the string, so two    *)
(* staged names are the same string exactly when both components agree.    *)
(***************************************************************************)
EXTENDS Integers, Sequences, FiniteSets, TLC

\* ---------------------------------------------------------------- bounds
\* Requests that arrive, parts per request, parts over all requests, and how
\* far the clock runs (whole hours, and milliseconds past the hour).
NumReq == 2
MaxFiles == 2
MaxParts == 2
MaxHours == 1
MaxMillis == 1

\* ------------------------------------------------------- program constants
ONE_HOUR == 60 * 60 * 1000
SweepInterval == 60 * 60 * 1000

Requests == 1..NumReq

\* ------------------------------------------------------------ file names
Letters ==
    {"a","b","c","d","e","f","g","h","i","j","k","l","m",
     "n","o","p","q","r","s","t","u","v","w","x","y","z",
     "A","B","C","D","E","F","G","H","I","J","K","L","M",
     "N","O","P","Q","R","S","T","U","V","W","X","Y","Z"}
Digits == {"0","1","2","3","4","5","6","7","8","9"}

\* file.originalname.replace(/[^a-zA-Z0-9.]/g, "-")
SanitizeChar(c) == IF c \in Letters \cup Digits \cup {"."} THEN c ELSE "-"
Sanitize(s) == [k \in 1..Len(s) |-> SanitizeChar(s[k])]

\* /\.(heic|heif)$/i.test(file.originalname)
FileFilterPasses(s) ==
    LET n == Len(s) IN
    /\ n >= 5
    /\ s[n-4] = "."
    /\ s[n-3] \in {"h","H"}
    /\ s[n-2] \in {"e","E"}
    /\ s[n-1] \in {"i","I"}
    /\ s[n] \in {"c","C","f","F"}

\* `${Date.now()}-${sanitizedName}`
StagedName(t, originalname) == [ts |-> t, name |-> Sanitize(originalname)]

\* path.extname: from the last "." to the end; "" when there is no "." (the
\* staged name starts with a digit, so a "." is never its first character).
DotPositions(s) == {k \in 1..Len(s) : s[k] = "."}
LastDot(s) == IF DotPositions(s) = {} THEN 0
              ELSE CHOOSE k \in DotPositions(s) : \A j \in DotPositions(s) : j <= k
ExtName(s) == IF LastDot(s) = 0 THEN <<>> ELSE SubSeq(s, LastDot(s), Len(s))
\* path.basename(p, ext): p without its trailing ext
BaseName(s, ext) ==
    IF Len(ext) > 0 /\ Len(s) > Len(ext)
       /\ SubSeq(s, Len(s) - Len(ext) + 1, Len(s)) = ext
    THEN SubSeq(s, 1, Len(s) - Len(ext))
    ELSE s

\* `${path.basename(file.filename, path.extname(file.filename))}.jpg`
OutputFilename(fn) ==
    [ts |-> fn.ts, name |-> BaseName(fn.name, ExtName(fn.name)) \o <<".","j","p","g">>]

\* ---------------------------------------------------------------- inputs
\* One part of a multipart request: the client's file name and whether its
\* bytes decode as HEIC.
NamePhoto == <<"a"," ","b",".","h","e","i","c">>
NameHeif == <<"a","-","b",".","H","E","I","F">>
NamePng == <<"a",".","p","n","g">>
Uploads ==
    { [originalname |-> NamePhoto, valid |-> TRUE],
      [originalname |-> NameHeif, valid |-> FALSE],
      [originalname |-> NamePng, valid |-> TRUE] }

RECURSIVE SeqsUpTo(_, _)
SeqsUpTo(S, n) ==
    IF n = 0 THEN {<<>>}
    ELSE LET shorter == SeqsUpTo(S, n - 1) IN
         shorter \cup {Append(q, x) : q \in {p \in shorter : Len(p) = n - 1}, x \in S}
Batches == SeqsUpTo(Uploads, MaxFiles)

\* ----------------------------------------------------------------- state
VARIABLES
    server,       \* position of startServer: mkdirUploads, mkdirConverted, listening, exited
    dirs,         \* the directories that exist, a subset of {"uploads", "converted"}
    now,          \* Date.now(), milliseconds since the process started
    lastFire,     \* when the setInterval timer last fired (0: when it was set)
    uploadFS,     \* uploadDir: staged name -> [mtime, valid, owner]
    convertedFS,  \* convertedDir: output name -> [mtime, valid, owner]
    req,          \* the POST /convert requests
    sweep,        \* the running cleanupOldFiles call
    sweepLog      \* what the last sweep began with and how it ended (history)

vars == <<server, dirs, now, lastFire, uploadFS, convertedFS, req, sweep, sweepLog>>

NoName == [ts |-> 0, name |-> <<>>]
NoBody ==
    [success |-> FALSE, convertedCount |-> 0, totalFiles |-> 0, files |-> <<>>,
     errors |-> <<>>, hasErrors |-> FALSE, error |-> ""]

\* A request that has not arrived.  log is history: the calls the loop made,
\* in order, each [ev, idx, ok] with ev one of "start" (convertHeicToJpg
\* called on req.files[idx]), "end" (it returned, ok: its success field),
\* "record" (a push, ok: onto convertedFiles, else onto errors) and "unlink"
\* (fs.unlink of the staged path, ok: it succeeded).
IdleRequest ==
    [pc |-> "idle", parts |-> <<>>, k |-> 1, files |-> <<>>, i |-> 1, buf |-> "none",
     convertedFiles |-> <<>>, errors |-> <<>>, status |-> 0, body |-> NoBody,
     log |-> <<>>]

Event(e, i, ok) == [ev |-> e, idx |-> i, ok |-> ok]
Logged(rq, e, i, ok) == Append(rq.log, Event(e, i, ok))

IdleSweep == [pc |-> "idle", todo |-> {}, cur |-> NoName]
NoSweepLog ==
    [runs |-> 0, running |-> FALSE, startNow |-> 0, startUploads |-> <<>>,
     startConverted |-> <<>>, failed |-> FALSE, unexaminedOld |-> FALSE,
     leftOld |-> FALSE, deletedYoung |-> FALSE]

Remove(fs, f) == [x \in DOMAIN fs \ {f} |-> fs[x]]
Put(fs, f, v) == [x \in DOMAIN fs \cup {f} |-> IF x = f THEN v ELSE fs[x]]
EmptyFS == [x \in {} |-> 0]

Init ==
    /\ server = "mkdirUploads"
    /\ dirs = {}
    /\ now = 0
    /\ lastFire = 0
    /\ uploadFS = EmptyFS
    /\ convertedFS = EmptyFS
    /\ req = [r \in Requests |-> IdleRequest]
    /\ sweep = IdleSweep
    /\ sweepLog = NoSweepLog

\* --------------------------------------------------------------- startup
\* A faulty variant of the catch below: it logs and returns, and startServer
\* goes on to app.listen.
OnMkdirErrorSwallowed == "listening"
\* initializeDirectories' catch: console.error, process.exit(1)
OnMkdirError == "exited"

\* await fs.mkdir(uploadDir, { recursive: true })
MkdirUploads ==
    /\ server = "mkdirUploads"
    /\ \E ok \in BOOLEAN :
         IF ok
         THEN server' = "mkdirConverted" /\ dirs' = dirs \cup {"uploads"}
         ELSE server' = OnMkdirError /\ dirs' = dirs
    /\ UNCHANGED <<now, lastFire, uploadFS, convertedFS, req, sweep, sweepLog>>

\* await fs.mkdir(convertedDir, { recursive: true }); then app.listen
MkdirConverted ==
    /\ server = "mkdirConverted"
    /\ \E ok \in BOOLEAN :
         IF ok
         THEN server' = "listening" /\ dirs' = dirs \cup {"converted"}
         ELSE server' = OnMkdirError /\ dirs' = dirs
    /\ UNCHANGED <<now, lastFire, uploadFS, convertedFS, req, sweep, sweepLog>>

\* ------------------------------------------------------------------ clock
\* Time passes, by a millisecond or by an hour, while the process lives.
Tick ==
    /\ server # "exited"
    /\ \E d \in {1, ONE_HOUR} :
         /\ d = 1 => now % ONE_HOUR < MaxMillis
         /\ d = ONE_HOUR => now \div ONE_HOUR < MaxHours
         /\ now' = now + d
    /\ UNCHANGED <<server, dirs, lastFire, uploadFS, convertedFS, req, sweep, sweepLog>>

\* ----------------------------------------------------------------- intake
\* POST /convert arrives with a multipart body; the server must be listening.
\* Requests are numbered in the order they arrive.
RECURSIVE PartsUpTo(_)
PartsUpTo(r) == IF r = 0 THEN 0 ELSE Len(req[r].parts) + PartsUpTo(r - 1)

Arrive(r) ==
    /\ server = "listening"
    /\ req[r].pc = "idle"
    /\ \A q \in Requests : q < r => req[q].pc # "idle"
    /\ \E batch \in Batches :
         /\ PartsUpTo(NumReq) + Len(batch) <= MaxParts
         /\ req' = [req EXCEPT ![r] = [@ EXCEPT !.pc = "intake", !.parts = batch]]
    /\ UNCHANGED <<server, dirs, now, lastFire, uploadFS, convertedFS, sweep, sweepLog>>

\* multer takes the next part: fileFilter, then storage.filename and the
\* write of the part to uploadDir (an existing file of that name is
\* overwritten).  A part the filter refuses ends the intake.
IntakePart(r) ==
    LET rq == req[r]
        part == rq.parts[rq.k]
        fn == StagedName(now, part.originalname)
    IN
    /\ rq.pc = "intake"
    /\ rq.k <= Len(rq.parts)
    /\ IF FileFilterPasses(part.originalname)
       THEN /\ uploadFS' = Put(uploadFS, fn,
                               [mtime |-> now, valid |-> part.valid, owner |-> <<r, rq.k>>])
            /\ req' = [req EXCEPT ![r] =
                          [@ EXCEPT !.k = rq.k + 1,
                                    !.files = Append(rq.files,
                                        [originalname |-> part.originalname,
                                         filename |-> fn])]]
       ELSE /\ uploadFS' = uploadFS
            /\ req' = [req EXCEPT ![r] = [@ EXCEPT !.pc = "rejected"]]
    /\ UNCHANGED <<server, dirs, now, lastFire, convertedFS, sweep, sweepLog>>

\* The response of an error branch of the upload callback: status 400.
Respond400(rq, msg) ==
    [rq EXCEPT !.pc = "done", !.status = 400,
               !.body = [NoBody EXCEPT !.error = msg]]

\* The loop's local state: convertedFiles = [], errors = [].
BeginLoop(rq) ==
    [rq EXCEPT !.pc = "convert", !.i = 1,
               !.convertedFiles = <<>>, !.errors = <<>>]

\* A faulty variant of the branch below: the callback does not return on
\* err and runs the loop over what req.files holds.
UploadCallbackErrIgnored(rq) == BeginLoop(rq)
\* upload's callback with err set: `else if (err) return res.status(400)...`
UploadCallbackErr(rq) == Respond400(rq, "Only HEIC/HEIF files are allowed")

\* After a refused part multer removes the files this request staged (by
\* path) and calls back with the filter's error.
UploadRejected(r) ==
    LET rq == req[r]
        staged == {rq.files[j].filename : j \in 1..Len(rq.files)}
    IN
    /\ rq.pc = "rejected"
    /\ uploadFS' = [x \in DOMAIN uploadFS \ staged |-> uploadFS[x]]
    /\ req' = [req EXCEPT ![r] = UploadCallbackErr(rq)]
    /\ UNCHANGED <<server, dirs, now, lastFire, convertedFS, sweep, sweepLog>>

\* res.json({success, convertedCount, totalFiles, files, errors})
Respond200(rq) ==
    [rq EXCEPT !.pc = "done", !.status = 200,
               !.body = [success |-> Len(rq.convertedFiles) > 0,
                         convertedCount |-> Len(rq.convertedFiles),
                         totalFiles |-> Len(rq.files),
                         files |-> rq.convertedFiles,
                         errors |-> rq.errors,
                         hasErrors |-> Len(rq.errors) > 0,
                         error |-> ""]]

\* upload's callback without err: 400 when req.files is empty, else the loop.
\* The parts of a modelled request stay within multer's limits (at most 10
\* files of at most 10 MB), so the MulterError branch is not taken.  The
\* outer catch (status 500) is not taken either: every await of the loop
\* body is inside the inner try, and the inner catch's unlink has its own.
UploadCallback(r) ==
    LET rq == req[r] IN
    /\ rq.pc = "intake"
    /\ rq.k > Len(rq.parts)
    /\ req' = [req EXCEPT ![r] =
                  IF Len(rq.files) = 0
                  THEN Respond400(rq, "No files uploaded")
                  ELSE BeginLoop(rq)]
    /\ UNCHANGED <<server, dirs, now, lastFire, uploadFS, convertedFS, sweep, sweepLog>>

\* ------------------------------------------------------- the convert loop
CurFile(rq) == rq.files[rq.i]

\* convertHeicToJpg, first await: fs.readFile(inputPath).  The buffer is the
\* staged file's bytes, or the read fails when the staged path is gone.
ConvertRead(r) ==
    LET rq == req[r]
        fn == CurFile(rq).filename
    IN
    /\ rq.pc = "convert"
    /\ rq.i <= Len(rq.files)
    /\ req' = [req EXCEPT ![r] =
                  [@ EXCEPT !.pc = "converting",
                            !.buf = IF fn \in DOMAIN uploadFS
                                    THEN (IF uploadFS[fn].valid THEN "valid" ELSE "corrupt")
                                    ELSE "enoent",
                            !.log = Logged(rq, "start", rq.i, TRUE)]]
    /\ UNCHANGED <<server, dirs, now, lastFire, uploadFS, convertedFS, sweep, sweepLog>>

\* convertHeicToJpg, the rest: heicConvert decodes the buffer and sharp writes
\* outputPath; any error is caught and returned as {success: false}.  The
\* handler awaits the call and ignores the value it returns.
ConvertWrite(r) ==
    LET rq == req[r]
        out == OutputFilename(CurFile(rq).filename)
        ok == rq.buf = "valid"
    IN
    /\ rq.pc = "converting"
    /\ convertedFS' = IF ok
                      THEN Put(convertedFS, out,
                               [mtime |-> now, valid |-> TRUE, owner |-> <<r, rq.i>>])
                      ELSE convertedFS
    /\ req' = [req EXCEPT ![r] =
                  [@ EXCEPT !.pc = "stat", !.buf = "none",
                            !.log = Logged(rq, "end", rq.i, ok)]]
    /\ UNCHANGED <<server, dirs, now, lastFire, uploadFS, sweep, sweepLog>>

\* errors.push({file: file.originalname, error: error.message})
PushError(rq) ==
    [rq EXCEPT !.errors = Append(rq.errors,
                              [file |-> CurFile(rq).originalname, idx |-> rq.i]),
               !.log = Logged(rq, "record", rq.i, FALSE)]

\* convertedFiles.push({..., size: (await fs.stat(outputPath)).size}): the
\* push happens when the stat resolves; a stat that fails throws into the
\* catch, which pushes onto errors.
StatOutput(r) ==
    LET rq == req[r]
        out == OutputFilename(CurFile(rq).filename)
    IN
    /\ rq.pc = "stat"
    /\ req' = [req EXCEPT ![r] =
                  IF out \in DOMAIN convertedFS
                  THEN [rq EXCEPT !.pc = "unlink",
                                  !.convertedFiles = Append(rq.convertedFiles,
                                      [originalName |-> CurFile(rq).originalname,
                                       convertedName |-> out,
                                       idx |-> rq.i]),
                                  !.log = Logged(rq, "record", rq.i, TRUE)]
                  ELSE [PushError(rq) EXCEPT !.pc = "cleanup"]]
    /\ UNCHANGED <<server, dirs, now, lastFire, uploadFS, convertedFS, sweep, sweepLog>>

\* The end of one iteration: the next file, or res.json after the last one.
NextFile(rq) ==
    IF rq.i < Len(rq.files)
    THEN [rq EXCEPT !.pc = "convert", !.i = rq.i + 1]
    ELSE Respond200(rq)

\* A faulty variant of the catch's end below: the first failing file ends
\* the loop.
AfterCatchBreak(rq) == Respond200(rq)
\* The end of the catch block: the loop goes on with the next file.
AfterCatch(rq) == NextFile(rq)

\* `await fs.unlink(file.path)` after the push onto convertedFiles; when it
\* fails the catch pushes onto errors and unlinks again.
UnlinkStaged(r) ==
    LET rq == req[r]
        fn == CurFile(rq).filename
        ok == fn \in DOMAIN uploadFS
        logged == [rq EXCEPT !.log = Logged(rq, "unlink", rq.i, ok)]
    IN
    /\ rq.pc = "unlink"
    /\ uploadFS' = IF ok THEN Remove(uploadFS, fn) ELSE uploadFS
    /\ req' = [req EXCEPT ![r] =
                  IF ok THEN NextFile(logged)
                  ELSE [PushError(logged) EXCEPT !.pc = "cleanup"]]
    /\ UNCHANGED <<server, dirs, now, lastFire, convertedFS, sweep, sweepLog>>

\* The catch block's `try { await fs.unlink(file.path) } catch (cleanupError)`.
CleanupStaged(r) ==
    LET rq == req[r]
        fn == CurFile(rq).filename
        ok == fn \in DOMAIN uploadFS
        logged == [rq EXCEPT !.log = Logged(rq, "unlink", rq.i, ok)]
    IN
    /\ rq.pc = "cleanup"
    /\ uploadFS' = IF ok THEN Remove(uploadFS, fn) ELSE uploadFS
    /\ req' = [req EXCEPT ![r] = AfterCatch(logged)]
    /\ UNCHANGED <<server, dirs, now, lastFire, convertedFS, sweep, sweepLog>>

\* -------------------------------------------------------- retention sweep
\* Date.now() - stats.mtime.getTime() > ONE_HOUR
IsOldAt(file, t) == t - file.mtime > ONE_HOUR
IsOld(file) == IsOldAt(file, now)

\* History: a file the sweep began with, old then, is still there unchanged.
LeftOld(up, conv) ==
    \/ \E f \in DOMAIN sweepLog.startUploads :
         /\ IsOldAt(sweepLog.startUploads[f], sweepLog.startNow)
         /\ f \in DOMAIN up /\ up[f] = sweepLog.startUploads[f]
    \/ \E f \in DOMAIN sweepLog.startConverted :
         /\ IsOldAt(sweepLog.startConverted[f], sweepLog.startNow)
         /\ f \in DOMAIN conv /\ conv[f] = sweepLog.startConverted[f]

\* cleanupOldFiles returns after its last entry.
SweepReturns(up, conv) ==
    /\ sweep' = IdleSweep
    /\ sweepLog' = [NoSweepLog EXCEPT !.runs = sweepLog.runs + 1,
                                      !.deletedYoung = sweepLog.deletedYoung,
                                      !.leftOld = LeftOld(up, conv)]

\* The catch around the whole body: console.error("Cleanup error:", error);
\* nothing after the failing call runs.  unexamined: the old entries this run
\* never reached.
SweepThrows(unexamined) ==
    /\ sweep' = IdleSweep
    /\ sweepLog' = [NoSweepLog EXCEPT !.runs = sweepLog.runs + 1,
                                      !.failed = TRUE,
                                      !.unexaminedOld = unexamined,
                                      !.deletedYoung = sweepLog.deletedYoung,
                                      !.leftOld = LeftOld(uploadFS, convertedFS)]

OldIn(fs, names) == \E f \in names : f \in DOMAIN fs /\ IsOld(fs[f])

\* The setInterval timer fires, an interval or more after it last fired, and
\* cleanupOldFiles starts: `await fs.readdir(uploadDir)`.  A run starts when
\* the run before it has returned.
SweepStart ==
    /\ server # "exited"
    /\ sweep.pc = "idle"
    /\ now - lastFire >= SweepInterval
    /\ lastFire' = now
    /\ IF "uploads" \in dirs
       THEN /\ sweep' = [pc |-> "uploads", todo |-> DOMAIN uploadFS, cur |-> NoName]
            /\ sweepLog' = [NoSweepLog EXCEPT !.runs = sweepLog.runs, !.running = TRUE,
                                              !.startNow = now,
                                              !.startUploads = uploadFS,
                                              !.startConverted = convertedFS]
       ELSE /\ sweep' = IdleSweep
            /\ sweepLog' = [NoSweepLog EXCEPT !.runs = sweepLog.runs + 1, !.failed = TRUE]
    /\ UNCHANGED <<server, dirs, now, uploadFS, convertedFS, req>>

\* One entry of the uploads listing: `await fs.stat(filePath)`, then the age
\* test.  The listing's order is the file system's: any entry may come next.
SweepStatUpload ==
    /\ sweep.pc = "uploads"
    /\ \E f \in sweep.todo :
         IF f \notin DOMAIN uploadFS
         THEN SweepThrows(OldIn(uploadFS, sweep.todo \ {f})
                          \/ OldIn(convertedFS, DOMAIN convertedFS))
         ELSE /\ sweep' = IF IsOld(uploadFS[f])
                          THEN [sweep EXCEPT !.pc = "unlinkUpload", !.cur = f]
                          ELSE [sweep EXCEPT !.todo = @ \ {f}]
              /\ sweepLog' = sweepLog
    /\ UNCHANGED <<server, dirs, now, lastFire, uploadFS, convertedFS, req>>

\* `await fs.unlink(filePath)` of an old staged file.
SweepUnlinkUpload ==
    /\ sweep.pc = "unlinkUpload"
    /\ IF sweep.cur \notin DOMAIN uploadFS
       THEN /\ SweepThrows(OldIn(uploadFS, sweep.todo \ {sweep.cur})
                           \/ OldIn(convertedFS, DOMAIN convertedFS))
            /\ uploadFS' = uploadFS
       ELSE /\ uploadFS' = Remove(uploadFS, sweep.cur)
            /\ sweep' = [sweep EXCEPT !.pc = "uploads", !.todo = @ \ {sweep.cur},
                                      !.cur = NoName]
            /\ sweepLog' = [sweepLog EXCEPT !.deletedYoung =
                               @ \/ ~IsOld(uploadFS[sweep.cur])]
    /\ UNCHANGED <<server, dirs, now, lastFire, convertedFS, req>>

\* The uploads loop is over: `await fs.readdir(convertedDir)`.
SweepReadConverted ==
    /\ sweep.pc = "uploads"
    /\ sweep.todo = {}
    /\ IF "converted" \notin dirs
       THEN SweepThrows(FALSE)
       ELSE IF DOMAIN convertedFS = {}
       THEN SweepReturns(uploadFS, convertedFS)
       ELSE /\ sweep' = [pc |-> "converted", todo |-> DOMAIN convertedFS, cur |-> NoName]
            /\ sweepLog' = sweepLog
    /\ UNCHANGED <<server, dirs, now, lastFire, uploadFS, convertedFS, req>>

\* One entry of the converted listing: stat, then the age test.
SweepStatConverted ==
    /\ sweep.pc = "converted"
    /\ \E f \in sweep.todo :
         IF f \notin DOMAIN convertedFS
         THEN SweepThrows(OldIn(convertedFS, sweep.todo \ {f}))
         ELSE IF IsOld(convertedFS[f])
         THEN /\ sweep' = [sweep EXCEPT !.pc = "unlinkConverted", !.cur = f]
              /\ sweepLog' = sweepLog
         ELSE IF sweep.todo = {f}
         THEN SweepReturns(uploadFS, convertedFS)
         ELSE /\ sweep' = [sweep EXCEPT !.todo = @ \ {f}]
              /\ sweepLog' = sweepLog
    /\ UNCHANGED <<server, dirs, now, lastFire, uploadFS, convertedFS, req>>

\* `await fs.unlink(filePath)` of an old artifact.
SweepUnlinkConverted ==
    /\ sweep.pc = "unlinkConverted"
    /\ IF sweep.cur \notin DOMAIN convertedFS
       THEN /\ SweepThrows(OldIn(convertedFS, sweep.todo \ {sweep.cur}))
            /\ convertedFS' = convertedFS
       ELSE LET young == ~IsOld(convertedFS[sweep.cur])
                left == Remove(convertedFS, sweep.cur)
            IN
            /\ convertedFS' = left
            /\ IF sweep.todo = {sweep.cur}
               THEN /\ sweep' = IdleSweep
                    /\ sweepLog' = [NoSweepLog EXCEPT !.runs = sweepLog.runs + 1,
                                       !.leftOld = LeftOld(uploadFS, left),
                                       !.deletedYoung = sweepLog.deletedYoung \/ young]
               ELSE /\ sweep' = [sweep EXCEPT !.pc = "converted",
                                              !.todo = @ \ {sweep.cur}, !.cur = NoName]
                    /\ sweepLog' = [sweepLog EXCEPT !.deletedYoung = @ \/ young]
    /\ UNCHANGED <<server, dirs, now, lastFire, uploadFS, req>>

\* ------------------------------------------------------------------- spec
Next ==
    \/ MkdirUploads
    \/ MkdirConverted
    \/ Tick
    \/ \E r \in Requests : Arrive(r)
    \/ \E r \in Requests : IntakePart(r)
    \/ \E r \in Requests : UploadRejected(r)
    \/ \E r \in Requests : UploadCallback(r)
    \/ \E r \in Requests : ConvertRead(r)
    \/ \E r \in Requests : ConvertWrite(r)
    \/ \E r \in Requests : StatOutput(r)
    \/ \E r \in Requests : UnlinkStaged(r)
    \/ \E r \in Requests : CleanupStaged(r)
    \/ SweepStart
    \/ SweepStatUpload
    \/ SweepUnlinkUpload
    \/ SweepReadConverted
    \/ SweepStatConverted
    \/ SweepUnlinkConverted

Spec == Init /\ [][Next]_vars

\* ------------------------------------------------------------ vocabulary
Positions(rq, e, i) == {p \in 1..Len(rq.log) : rq.log[p].ev = e /\ rq.log[p].idx = i}
Starts(rq) == {p \in 1..Len(rq.log) : rq.log[p].ev = "start"}
Ends(rq) == {p \in 1..Len(rq.log) : rq.log[p].ev = "end"}
\* The conversion call on file i returned success.
ConvOK(rq, i) == \E p \in Positions(rq, "end", i) : rq.log[p].ok
\* The handler's fs.unlink calls on file i's staged path.
Tries(rq, i) == Cardinality(Positions(rq, "unlink", i))
\* Entries of the response's files and errors for file i.
InFiles(rq, i) == {p \in 1..Len(rq.body.files) : rq.body.files[p].idx = i}
InErrors(rq, i) == {p \in 1..Len(rq.body.errors) : rq.body.errors[p].idx = i}
FileIdx(rq) == 1..Len(rq.files)
\* The request was answered by the loop's res.json.
Answered(rq) == rq.pc = "done" /\ rq.k > Len(rq.parts) /\ Len(rq.files) > 0
\* A part of the request fails the extension check.
HasRefused(rq) == \E k \in 1..Len(rq.parts) : ~FileFilterPasses(rq.parts[k].originalname)
OwnedBy(fs, r) == {f \in DOMAIN fs : fs[f].owner[1] = r}
\* The uploads that passed intake, each <<request, index in req.files>>.
Accepted == {<<r, i>> : r \in Requests, i \in 1..MaxFiles}
AcceptedUploads == {u \in Accepted : u[2] <= Len(req[u[1]].files)}

\* ----------------------------------------------------------------- claims

\* C1: every answered request lists each staged file in exactly one of files
\* and errors, so convertedCount + errors.length = totalFiles.
C1_EachFileListedOnce ==
    \A r \in Requests : Answered(req[r]) =>
        /\ req[r].body.convertedCount + Len(req[r].body.errors) = req[r].body.totalFiles
        /\ \A i \in FileIdx(req[r]) :
             Cardinality(InFiles(req[r], i)) + Cardinality(InErrors(req[r], i)) = 1

\* C2: a file is listed in files exactly when its conversion call returned
\* success; a file whose call returned failure is listed in errors.
C2_ListedIffConverted ==
    \A r \in Requests : Answered(req[r]) =>
        \A i \in FileIdx(req[r]) :
            /\ (InFiles(req[r], i) # {}) <=> ConvOK(req[r], i)
            /\ ~ConvOK(req[r], i) => InErrors(req[r], i) # {}

\* C3: for every staged file of an answered request the handler made one
\* unlink call on its staged path and no second one, and the file it staged
\* is gone from the staging directory.
C3_StagedRemovedOnce ==
    \A r \in Requests : Answered(req[r]) =>
        \A i \in FileIdx(req[r]) :
            /\ Tries(req[r], i) = 1
            /\ <<r, i>> \notin {uploadFS[f].owner : f \in DOMAIN uploadFS}

\* C4: a request that passes intake is answered with status 200; success is
\* true exactly when a file of the batch was converted, and errors is present
\* exactly when a file of the batch failed.
C4_SuccessIffSomeConverted ==
    \A r \in Requests : Answered(req[r]) =>
        /\ req[r].status = 200
        /\ req[r].body.success <=> (\E i \in FileIdx(req[r]) : ConvOK(req[r], i))
        /\ req[r].body.hasErrors <=> (\E i \in FileIdx(req[r]) : ~ConvOK(req[r], i))

C6_SweepRemovesOldKeepsYoung ==
    (sweepLog.runs > 0 /\ ~sweepLog.running) =>
        ~sweepLog.leftOld /\ ~sweepLog.deletedYoung

\* C7: a stat or unlink that fails during a sweep does not keep the sweep
\* from reaching the remaining old entries of both directories.
C7_FailureDoesNotAbortSweep ==
    sweepLog.failed => ~sweepLog.unexaminedOld

\* C8: any two accepted uploads have distinct staged names and distinct
\* output names.
C8_NamesNeverCollide ==
    \A u, v \in AcceptedUploads : u # v =>
        LET fu == req[u[1]].files[u[2]].filename
            fv == req[v[1]].files[v[2]].filename
        IN fu # fv /\ OutputFilename(fu) # OutputFilename(fv)

\* C9: the server listens, and a request is served, only with both
\* directories in place; a process whose mkdir failed has exited and never
\* served a request.
C9_DirectoriesBeforeRequests ==
    /\ server = "listening" => dirs = {"uploads", "converted"}
    /\ \A r \in Requests : req[r].pc # "idle" =>
         server = "listening" /\ dirs = {"uploads", "converted"}
    /\ server = "exited" => dirs # {"uploads", "converted"}

\* C9's case: the server is listening and has answered a conversion request.
C9_Witness ==
    /\ server = "listening"
    /\ \E r \in Requests : req[r].pc = "done" /\ req[r].status = 200

\* C10: within a request the conversion calls are made one at a time in
\* upload order: the call on file i starts after file i-1 was converted or
\* failed, recorded and its staged source unlinked, and an answered request
\* made a call for every file of the batch.
C10_OneAtATimeInOrder ==
    \A r \in Requests :
        LET rq == req[r] IN
        /\ Cardinality(Starts(rq)) - Cardinality(Ends(rq)) \in {0, 1}
        /\ (rq.pc = "converting") <=> (Cardinality(Starts(rq)) - Cardinality(Ends(rq)) = 1)
        /\ \A p \in Starts(rq) :
             LET i == rq.log[p].idx IN
             /\ i = Cardinality({q \in Starts(rq) : q < p}) + 1
             /\ \A j \in 1..(i - 1) :
                  /\ \E q \in Positions(rq, "end", j) : q < p
                  /\ \E q \in Positions(rq, "record", j) : q < p
                  /\ \E q \in Positions(rq, "unlink", j) : q < p
        /\ Answered(rq) => Cardinality(Starts(rq)) = Len(rq.files)

\* C10's case: a request of two files whose first file failed and whose
\* second file was converted has been answered.
C10_Witness ==
    \E r \in Requests :
        /\ Answered(req[r])
        /\ Len(req[r].files) = 2
        /\ ~ConvOK(req[r], 1)
        /\ InErrors(req[r], 1) # {}
        /\ ConvOK(req[r], 2)

====
